---- MODULE Spec2Model ----
(***************************************************************************)
(* Model of fix_pubspecs_v2.py: the driver loop over the roots (os.walk)   *)
(* and fix_file (read, line-pair scan, conditional overwrite, per-file     *)
(* error handling).                                                        *)
(*                                                                         *)
(* Text is modelled as sequences of tokens.  A token is a whole word of    *)
(* the manifest (a package name, a version, "path"), a single punctuation  *)
(* character (":"), one whitespace character (" ", "\t") or one line       *)
(* terminator ("\n", "\r\n").  A file on disk is one flat token sequence;  *)
(* readlines() splits it, writelines() concatenates.                       *)
(*                                                                         *)
(* The file system is a binary tree of directories 1..NumDirs (directory d *)
(* holds 2d and 2d+1); a root may also be a path that does not exist.      *)
(* Listing a directory, reading and writing a manifest may fail.           *)
(*                                                                         *)
(* All specifications share the actions and differ in their inputs:        *)
(*   Spec       runs from the top directory over any placement of files;   *)
(*   ErrSpec    runs over four roots lists, one kind of file per directory;*)
(*   WalkSpec   runs over every roots list;                                *)
(*   ScanSpec   one manifest with any lines, met once;                     *)
(*   RerunSpec  one manifest with any lines, met twice (fix_file keeps no  *)
(*              state between calls, so the second call is a second run).  *)
(***************************************************************************)
EXTENDS Integers, Sequences, FiniteSets, TLC

\* ---------------------------------------------------------------- bounds
MaxLines == 3      \* lines per manifest in the scanner specification
MaxIndent == 1     \* whitespace characters in front of a name line
NumDirs == 3       \* directories of the modelled file system

\* ------------------------------------------------------- program constants
\* the roots list has two entries (lines 5-8)
NumRoots == 2

replacements ==
  [ web3_universal_core |-> "^0.1.1",       web3_universal_crypto |-> "^0.2.0",
    web3_universal_abi |-> "^0.1.1",        web3_universal_chains |-> "^0.1.0+1",
    web3_universal_signer |-> "^0.1.1",     web3_universal_provider |-> "^0.1.0+1",
    web3_universal_client |-> "^0.1.1+1",   web3_universal_contract |-> "^0.1.0+1",
    web3_universal_ens |-> "^0.1.1+1",      web3_universal_aa |-> "^0.1.1+1",
    web3_universal_reown |-> "^0.1.1",      web3_universal_swap |-> "^0.1.0+2",
    web3_universal_price |-> "^0.1.1",      web3_universal_utxo |-> "^0.1.0+1",
    web3_universal_bc_ur |-> "^0.1.0+1",    web3_universal_keystone |-> "^0.1.0+1",
    web3_universal_ledger |-> "^0.1.0+1",   web3_universal_trezor |-> "^0.1.0+1",
    web3_universal_mpc |-> "^0.1.0+1",      web3_universal_nft |-> "^0.1.1+1",
    web3_universal_multicall |-> "^0.1.0+2", web3_universal_mev |-> "^0.1.1",
    web3_universal_staking |-> "^0.1.1+1",  web3_universal_history |-> "^0.1.1+1",
    web3_universal_events |-> "^0.1.0+2",   web3_universal_solana |-> "^0.1.1",
    web3_universal_bitcoin |-> "^0.1.1",    web3_universal_aptos |-> "^0.1.0",
    web3_universal_ton |-> "^0.1.1",        web3_universal_tron |-> "^0.1.1",
    web3_universal_polkadot |-> "^0.1.1",   web3_universal_cosmos |-> "^0.1.1",
    web3_universal_debug |-> "^0.1.1",      web3_universal_bridge |-> "^0.1.0+2",
    web3_universal_dapp |-> "^0.1.1+1",     web3_universal_compat |-> "^0.1.0" ]

\* the characters str.strip() removes that occur in the modelled text
Whitespace == {" ", "\t", "\n"}

\* the literal 'path:' of line 74
PathMarker == <<"path", ":">>

\* ------------------------------------------------------------ str helpers
RECURSIVE lstrip(_)
lstrip(s) == IF s # <<>> /\ Head(s) \in Whitespace THEN lstrip(Tail(s)) ELSE s

RECURSIVE rstrip(_)
rstrip(s) ==
  IF s # <<>> /\ s[Len(s)] \in Whitespace THEN rstrip(SubSeq(s, 1, Len(s) - 1)) ELSE s

\* line.strip()
strip(s) == rstrip(lstrip(s))

\* stripped.endswith(c)
endswith(s, c) == s # <<>> /\ s[Len(s)] = c

\* s.find(sub): 0-based index of the first occurrence, -1 when there is none
find(s, sub) ==
  LET hits == {k \in 0..(Len(s) - Len(sub)) : SubSeq(s, k + 1, k + Len(sub)) = sub}
  IN IF hits = {} THEN -1 ELSE CHOOSE k \in hits : \A m \in hits : k <= m

\* sub in s
contains(s, sub) == find(s, sub) # -1

\* s[:k] with Python's meaning of a negative k
sliceTo(s, k) == IF k >= 0 THEN SubSeq(s, 1, k) ELSE SubSeq(s, 1, Len(s) + k)

\* stripped[:-1]
pkg_name(stripped) == sliceTo(stripped, -1)

\* pkg_name in replacements: the string is one of the keys
InTable(p) == Len(p) = 1 /\ p[1] \in DOMAIN replacements

\* a variant of indent that drops the leading whitespace
indentDropped(line, p) == <<>>

\* line[:line.find(pkg_name)]
indent(line, p) == sliceTo(line, find(line, p))

\* a variant of ReplacementLine that leaves the version out
ReplacementLineNoVersion(line, p) == indent(line, p) \o p \o <<":", "\n">>

\* f'{indent}{pkg_name}: {replacements[pkg_name]}\n'
ReplacementLine(line, p) == indent(line, p) \o p \o <<":", " ", replacements[p[1]], "\n">>

\* a variant of IsPathDep that does not look for 'path:' in the next line
IsPathDepAnyNext(ls, k) ==
  LET stripped == strip(ls[k])
  IN /\ endswith(stripped, ":")
     /\ InTable(pkg_name(stripped))
     /\ k < Len(ls)

\* the test of lines 68-74 on line k (1-based) of ls
IsPathDep(ls, k) ==
  LET stripped == strip(ls[k])
  IN /\ endswith(stripped, ":")
     /\ InTable(pkg_name(stripped))
     /\ k < Len(ls)
     /\ contains(ls[k + 1], PathMarker)

\* a variant of ScanStep that does not copy blank lines
ScanStepDropsBlank(ls, k, skip) ==
  IF skip
  THEN [emit |-> <<>>, skip |-> FALSE, rew |-> FALSE, exam |-> FALSE]
  ELSE IF IsPathDep(ls, k)
       THEN [emit |-> <<ReplacementLine(ls[k], pkg_name(strip(ls[k])))>>,
             skip |-> TRUE, rew |-> TRUE, exam |-> TRUE]
       ELSE [emit |-> IF strip(ls[k]) = <<>> THEN <<>> ELSE <<ls[k]>>,
             skip |-> FALSE, rew |-> FALSE, exam |-> TRUE]

\* a variant of ScanStep without the continue of line 63: the flag is cleared
\* but the line is processed all the same
ScanStepNoContinue(ls, k, skip) ==
  IF IsPathDep(ls, k)
  THEN [emit |-> <<ReplacementLine(ls[k], pkg_name(strip(ls[k])))>>,
        skip |-> TRUE, rew |-> TRUE, exam |-> TRUE]
  ELSE [emit |-> <<ls[k]>>, skip |-> FALSE, rew |-> FALSE, exam |-> TRUE]

\* one iteration of the for loop of lines 60-83 on line k, entered with the
\* skip flag skip: what is appended to new_lines, the flag afterwards, whether
\* modified is set, whether the line was examined as a candidate name line
ScanStep(ls, k, skip) ==
  IF skip
  THEN [emit |-> <<>>, skip |-> FALSE, rew |-> FALSE, exam |-> FALSE]
  ELSE IF IsPathDep(ls, k)
       THEN [emit |-> <<ReplacementLine(ls[k], pkg_name(strip(ls[k])))>>,
             skip |-> TRUE, rew |-> TRUE, exam |-> TRUE]
       ELSE [emit |-> <<ls[k]>>, skip |-> FALSE, rew |-> FALSE, exam |-> TRUE]

\* ------------------------------------------------------------- file helpers
\* f.readlines() in text mode: "\r\n" is translated to "\n", the text is split
\* after every "\n", a last line without terminator is kept as it is
RECURSIVE SplitLines(_, _, _)
SplitLines(s, cur, acc) ==
  IF s = <<>>
  THEN IF cur = <<>> THEN acc ELSE Append(acc, cur)
  ELSE IF Head(s) \in {"\n", "\r\n"}
       THEN SplitLines(Tail(s), <<>>, Append(acc, Append(cur, "\n")))
       ELSE SplitLines(Tail(s), Append(cur, Head(s)), acc)

readlines(content) == SplitLines(content, <<>>, <<>>)

\* what f.writelines(ls) puts in a file opened with newline='\n'
RECURSIVE writelines(_)
writelines(ls) == IF ls = <<>> THEN <<>> ELSE Head(ls) \o writelines(Tail(ls))

\* ------------------------------------------------------------ file system
Dirs == 1..NumDirs
NoDir == 0                       \* a path that does not exist
children(d) == IF 2 * d + 1 <= NumDirs THEN <<2 * d, 2 * d + 1>>
               ELSE IF 2 * d <= NumDirs THEN <<2 * d>> ELSE <<>>

\* the directories of the subtree of r, r included
RECURSIVE subtree(_)
subtree(r) ==
  IF r \notin Dirs THEN {}
  ELSE {r} \cup UNION {subtree(children(r)[k]) : k \in 1..Len(children(r))}

\* ------------------------------------------------------------------ inputs
\* indentations of 0..MaxIndent characters, blanks and tabs in turn
Indents == {[k \in 1..n |-> IF k % 2 = 1 THEN " " ELSE "\t"] : n \in 0..MaxIndent}

\* the line shapes the scanner distinguishes, without their terminator: name
\* lines of the table, a name line of another package, a path line, a version
\* line, a name line with trailing whitespace, a name with whitespace before
\* the colon, a blank line
ScanBodies ==
  {ind \o <<"web3_universal_core", ":">> : ind \in Indents}
  \cup { <<"\t", "web3_universal_crypto", ":">>,
         <<"other_pkg", ":">>,
         <<" ", "path", ":", " ", "../core">>,
         <<" ", "web3_universal_core", ":", " ", "^0.1.1">>,
         <<"web3_universal_core", ":", " ">>,
         <<"web3_universal_core", " ", ":">>,
         <<>> }

\* the text of a file whose lines are bodies, terminated by eol; the last line
\* is terminated only when term
RECURSIVE Content(_, _, _)
Content(bodies, eol, term) ==
  IF bodies = <<>> THEN <<>>
  ELSE Head(bodies)
       \o (IF Len(bodies) > 1 \/ term THEN <<eol>> ELSE <<>>)
       \o Content(Tail(bodies), eol, term)

ScanFiles ==
  {Content(b, "\n", t) : b \in UNION {[1..n -> ScanBodies] : n \in 0..MaxLines},
                         t \in BOOLEAN}

\* the manifests of the run specification: one without a block (CRLF line
\* ends), one with one block and no terminator on its last line
RunFiles ==
  { Content(<< <<"flutter">>, <<"web3_universal_core", ":">> >>, "\r\n", TRUE),
    Content(<< <<" ", "web3_universal_core", ":">>, <<"path", ":">> >>, "\n", FALSE) }

\* any two paths, equal, nested, disjoint or missing
RootLists == [1..NumRoots -> Dirs \cup {NoDir}]

\* ------------------------------------------------------------------- state
VARIABLES
  roots,       \* the roots list (lines 5-8)
  manifests,   \* directories that hold a pubspec.yaml
  disk,        \* disk[d]: the text of d/pubspec.yaml
  access,      \* access[d]: "unknown", "ok" or "denied" (scandir on d)
  rootIdx,     \* index of the next entry of roots (for base_root in roots)
  stack,       \* directories os.walk has still to visit, next one first
  pc,          \* "walk", "read", "scan", "commit", "write", "done"
  cur,         \* directory of the file fix_file is working on, NoDir if none
  lines, i, new_lines, modified, skip_next,     \* locals of fix_file
  origin,      \* history: origin[k] is the input line new_lines[k] comes from
  rewritten,   \* history: input lines replaced at line 78
  examined,    \* history: input lines that reached line 67
  orig,        \* history: disk at the start of the run
  calls,       \* history: calls[d] counts the calls fix_file(d/pubspec.yaml)
  outcomes,    \* history: per file, how each call ended
  wopened,     \* history: files opened for writing
  out          \* the console

vars == <<roots, manifests, disk, access, rootIdx, stack, pc, cur, lines, i,
          new_lines, modified, skip_next, origin, rewritten, examined, orig,
          calls, outcomes, wopened, out>>

fsVars == <<roots, manifests, orig>>
walkVars == <<rootIdx, stack, access>>
scanVars == <<lines, i, new_lines, modified, skip_next, origin, rewritten, examined>>

InitCommon ==
  /\ orig = disk
  /\ access = [d \in Dirs |-> "unknown"]
  /\ rootIdx = 1
  /\ stack = <<>>
  /\ pc = "walk"
  /\ cur = NoDir
  /\ lines = <<>> /\ i = 1 /\ new_lines = <<>>
  /\ modified = FALSE /\ skip_next = FALSE
  /\ origin = <<>> /\ rewritten = {} /\ examined = {}
  /\ calls = [d \in Dirs |-> 0]
  /\ outcomes = [d \in Dirs |-> <<>>]
  /\ wopened = {}
  /\ out = <<>>

\* a run from the top directory, alone or after a root that does not exist,
\* over any placement of the manifests of RunFiles
Init ==
  /\ roots \in {<<1>>, <<NoDir, 1>>}
  /\ disk \in [Dirs -> RunFiles \cup {<<>>}]
  /\ manifests = {d \in Dirs : disk[d] # <<>>}
  /\ InitCommon

\* the manifests of RunFiles that hold a dependency block
BlockFiles == {f \in RunFiles : \E k \in 1..Len(f) : f[k] = "path"}

\* a run from the top directory alone, after a root that does not exist or
\* after one of its own subdirectories, or from two sibling directories; a
\* directory with an odd number holds a manifest with a block or none, one
\* with an even number a manifest without a block or none
ErrInit ==
  /\ roots \in {<<1>>, <<NoDir, 1>>, <<2, 1>>, <<2, 3>>}
  /\ disk \in [Dirs -> RunFiles \cup {<<>>}]
  /\ \A d \in Dirs : disk[d] # <<>> => (disk[d] \in BlockFiles <=> d % 2 = 1)
  /\ manifests = {d \in Dirs : disk[d] # <<>>}
  /\ InitCommon

\* a run over any roots list; a directory with an odd number holds a manifest
\* with a block or none, one with an even number a manifest without a block
\* or none
WalkInit ==
  /\ roots \in RootLists
  /\ disk \in [Dirs -> RunFiles \cup {<<>>}]
  /\ \A d \in Dirs : disk[d] # <<>> => (disk[d] \in BlockFiles <=> d % 2 = 1)
  /\ manifests = {d \in Dirs : disk[d] # <<>>}
  /\ InitCommon

\* a run that meets one manifest, any of ScanFiles, once
ScanInit ==
  /\ roots = <<NumDirs, NoDir>>
  /\ manifests = {NumDirs}
  /\ \E f \in ScanFiles : disk = [d \in Dirs |-> IF d = NumDirs THEN f ELSE <<>>]
  /\ InitCommon

\* a run that meets one manifest, any of ScanFiles, twice
RerunInit ==
  /\ roots = <<NumDirs, NumDirs>>
  /\ manifests = {NumDirs}
  /\ \E f \in ScanFiles : disk = [d \in Dirs |-> IF d = NumDirs THEN f ELSE <<>>]
  /\ InitCommon

\* ------------------------------------------------------------- driver loop
\* for base_root in roots: os.walk(base_root) starts
NextRoot ==
  /\ pc = "walk" /\ stack = <<>> /\ rootIdx <= Len(roots)
  /\ stack' = <<roots[rootIdx]>>
  /\ rootIdx' = rootIdx + 1
  /\ UNCHANGED <<fsVars, disk, access, pc, cur, scanVars, calls, outcomes, wopened, out>>

\* a variant of WalkDirOk that does not descend into the subdirectories
WalkDirOkNoDescend ==
  /\ pc = "walk" /\ stack # <<>>
  /\ LET d == Head(stack) IN
       /\ d \in Dirs /\ access[d] # "denied"
       /\ access' = [access EXCEPT ![d] = "ok"]
       /\ stack' = Tail(stack)
       /\ IF d \in manifests
          THEN /\ pc' = "read" /\ cur' = d
               /\ calls' = [calls EXCEPT ![d] = @ + 1]
          ELSE UNCHANGED <<pc, cur, calls>>
  /\ UNCHANGED <<fsVars, disk, rootIdx, scanVars, outcomes, wopened, out>>

\* os.walk lists the next directory, queues its subdirectories and yields it;
\* the loop body calls fix_file when the listing holds pubspec.yaml
WalkDirOk ==
  /\ pc = "walk" /\ stack # <<>>
  /\ LET d == Head(stack) IN
       /\ d \in Dirs /\ access[d] # "denied"
       /\ access' = [access EXCEPT ![d] = "ok"]
       /\ stack' = children(d) \o Tail(stack)
       /\ IF d \in manifests
          THEN /\ pc' = "read" /\ cur' = d
               /\ calls' = [calls EXCEPT ![d] = @ + 1]
          ELSE UNCHANGED <<pc, cur, calls>>
  /\ UNCHANGED <<fsVars, disk, rootIdx, scanVars, outcomes, wopened, out>>

\* a variant of WalkDirError that gives up the walk of the current root
WalkDirErrorAborts ==
  /\ pc = "walk" /\ stack # <<>>
  /\ LET d == Head(stack) IN
       /\ IF d \in Dirs THEN access[d] # "ok" ELSE TRUE
       /\ access' = IF d \in Dirs THEN [access EXCEPT ![d] = "denied"] ELSE access
  /\ stack' = <<>>
  /\ UNCHANGED <<fsVars, disk, rootIdx, pc, cur, scanVars, calls, outcomes, wopened, out>>

\* os.walk cannot list the next directory (it does not exist, or scandir
\* raises OSError): with onerror=None the directory is dropped silently
WalkDirError ==
  /\ pc = "walk" /\ stack # <<>>
  /\ LET d == Head(stack) IN
       /\ IF d \in Dirs THEN access[d] # "ok" ELSE TRUE
       /\ access' = IF d \in Dirs THEN [access EXCEPT ![d] = "denied"] ELSE access
  /\ stack' = Tail(stack)
  /\ UNCHANGED <<fsVars, disk, rootIdx, pc, cur, scanVars, calls, outcomes, wopened, out>>

\* the outer loop is exhausted: the script ends
Finish ==
  /\ pc = "walk" /\ stack = <<>> /\ rootIdx > Len(roots)
  /\ pc' = "done"
  /\ UNCHANGED <<fsVars, disk, walkVars, cur, scanVars, calls, outcomes, wopened, out>>

\* ---------------------------------------------------------------- fix_file
\* fix_file returns: its locals are gone
Return(outcome) ==
  /\ pc' = "walk" /\ cur' = NoDir
  /\ lines' = <<>> /\ i' = 1 /\ new_lines' = <<>>
  /\ modified' = FALSE /\ skip_next' = FALSE
  /\ origin' = <<>> /\ rewritten' = {} /\ examined' = {}
  /\ outcomes' = [outcomes EXCEPT ![cur] = Append(@, outcome)]

\* the except clause: one line on the console, then return
Except == out' = Append(out, <<"Error processing", cur>>) /\ Return("Failed")

\* lines 53-58
ReadOk ==
  /\ pc = "read"
  /\ lines' = readlines(disk[cur])
  /\ new_lines' = <<>> /\ modified' = FALSE /\ skip_next' = FALSE
  /\ i' = 1
  /\ origin' = <<>> /\ rewritten' = {} /\ examined' = {}
  /\ pc' = "scan"
  /\ UNCHANGED <<fsVars, disk, walkVars, cur, calls, outcomes, wopened, out>>

\* a variant of ReadError in which the exception is not caught: the script ends
ReadErrorPropagates ==
  /\ pc = "read"
  /\ pc' = "done"
  /\ UNCHANGED <<fsVars, disk, walkVars, cur, scanVars, calls, outcomes, wopened, out>>

\* open or readlines raises (unreadable file, bad encoding)
ReadError ==
  /\ pc = "read"
  /\ Except
  /\ UNCHANGED <<fsVars, disk, walkVars, calls, wopened>>

\* one iteration of the for loop
ScanLine ==
  /\ pc = "scan" /\ i <= Len(lines)
  /\ LET r == ScanStep(lines, i, skip_next) IN
       /\ new_lines' = new_lines \o r.emit
       /\ skip_next' = r.skip
       /\ modified' = (modified \/ r.rew)
       /\ origin' = IF r.emit # <<>> THEN Append(origin, i) ELSE origin
       /\ rewritten' = IF r.rew THEN rewritten \cup {i} ELSE rewritten
       /\ examined' = IF r.exam THEN examined \cup {i} ELSE examined
  /\ i' = i + 1
  /\ UNCHANGED <<fsVars, disk, walkVars, pc, cur, lines, calls, outcomes, wopened, out>>

\* the for loop is exhausted
ScanEnd ==
  /\ pc = "scan" /\ i > Len(lines)
  /\ pc' = "commit"
  /\ UNCHANGED <<fsVars, disk, walkVars, cur, scanVars, calls, outcomes, wopened, out>>

\* a variant of CommitSkip that writes the file although nothing was rewritten
CommitSkipWrites ==
  /\ pc = "commit" /\ ~modified
  /\ disk' = [disk EXCEPT ![cur] = <<>>]
  /\ wopened' = wopened \cup {cur}
  /\ pc' = "write"
  /\ UNCHANGED <<fsVars, walkVars, cur, scanVars, calls, outcomes, out>>

\* line 85 with modified false: nothing is written, nothing is printed
CommitSkip ==
  /\ pc = "commit" /\ ~modified
  /\ Return("Unmodified")
  /\ UNCHANGED <<fsVars, disk, walkVars, calls, wopened, out>>

\* line 86: open(file_path, 'w') truncates the file
OpenWriteOk ==
  /\ pc = "commit" /\ modified
  /\ disk' = [disk EXCEPT ![cur] = <<>>]
  /\ wopened' = wopened \cup {cur}
  /\ pc' = "write"
  /\ UNCHANGED <<fsVars, walkVars, cur, scanVars, calls, outcomes, out>>

\* line 86 raises (permission denied): the file is not touched
OpenWriteError ==
  /\ pc = "commit" /\ modified
  /\ Except
  /\ UNCHANGED <<fsVars, disk, walkVars, calls, wopened>>

\* lines 87-88: the new text reaches the file, 'Fixed' is printed
WriteOk ==
  /\ pc = "write"
  /\ disk' = [disk EXCEPT ![cur] = writelines(new_lines)]
  /\ out' = Append(out, <<"Fixed", cur>>)
  /\ Return("Written")
  /\ UNCHANGED <<fsVars, walkVars, calls, wopened>>

\* writelines or the closing flush raises (disk full): some proper prefix of
\* the new text is in the file
WriteError ==
  /\ pc = "write"
  /\ \E n \in 0..(Len(writelines(new_lines)) - 1) :
       disk' = [disk EXCEPT ![cur] = SubSeq(writelines(new_lines), 1, n)]
  /\ Except
  /\ UNCHANGED <<fsVars, walkVars, calls, wopened>>

Next ==
  \/ NextRoot \/ WalkDirOk \/ WalkDirError \/ Finish
  \/ ReadOk \/ ReadError \/ ScanLine \/ ScanEnd
  \/ CommitSkip \/ OpenWriteOk \/ OpenWriteError \/ WriteOk \/ WriteError

Spec == Init /\ [][Next]_vars

ScanSpec == ScanInit /\ [][Next]_vars

RerunSpec == RerunInit /\ [][Next]_vars

ErrSpec == ErrInit /\ [][Next]_vars

WalkSpec == WalkInit /\ [][Next]_vars

TypeOK ==
  /\ pc \in {"walk", "read", "scan", "commit", "write", "done"}
  /\ cur \in Dirs \cup {NoDir}
  /\ Len(origin) = Len(new_lines)

\* ------------------------------------------------ vocabulary of the claims
\* the trimmed content of line is `<name>:` with <name> a key of the table
IsNameLine(line) ==
  \E k \in 1..(Len(line) - 1) :
    /\ line[k] \in DOMAIN replacements /\ line[k + 1] = ":"
    /\ \A j \in 1..Len(line) : j \notin {k, k + 1} => line[j] \in Whitespace

NamePos(line) == CHOOSE k \in 1..(Len(line) - 1) :
                   line[k] \in DOMAIN replacements /\ line[k + 1] = ":"

\* line contains the substring `path:`
HasPathMarker(line) ==
  \E k \in 1..(Len(line) - 1) : line[k] = "path" /\ line[k + 1] = ":"

\* lines j and j+1 of ls form a dependency block
IsBlock(ls, j) ==
  j \in 1..(Len(ls) - 1) /\ IsNameLine(ls[j]) /\ HasPathMarker(ls[j + 1])

Blocks(ls) == {j \in 1..Len(ls) : IsBlock(ls, j)}

\* <leading whitespace> <name> ': ' <version> newline
VersionLine(line) ==
  LET k == NamePos(line)
  IN SubSeq(line, 1, k - 1) \o <<line[k], ":", " ", replacements[line[k]], "\n">>

\* where input line j stands in the output when every block before it has
\* been replaced by one line
Pos(ls, j) == j - Cardinality({m \in Blocks(ls) : m < j})

\* the scan of the current file has run to its end
Scanned == pc \in {"commit", "write"}

\* the text of a manifest with every dependency block replaced
RECURSIVE Rewrite(_)
Rewrite(ls) ==
  IF ls = <<>> THEN <<>>
  ELSE IF IsBlock(ls, 1) THEN <<VersionLine(ls[1])>> \o Rewrite(Tail(Tail(ls)))
       ELSE <<Head(ls)>> \o Rewrite(Tail(ls))

HasBlock(d) == Blocks(readlines(orig[d])) # {}
NewText(d) == writelines(Rewrite(readlines(orig[d])))

Reports(kind, d) == Cardinality({k \in 1..Len(out) : out[k] = <<kind, d>>})
Count(seq, x) == Cardinality({k \in 1..Len(seq) : seq[k] = x})

\* no directory from r down to d has failed to list
Reach(r, d) ==
  /\ d \in subtree(r)
  /\ \A a \in subtree(r) : d \in subtree(a) => access[a] # "denied"

UnderRoots(d) == \E k \in 1..Len(roots) : d \in subtree(roots[k])

DisjointRoots ==
  \A k, m \in 1..Len(roots) :
    k # m => subtree(roots[k]) \cap subtree(roots[m]) = {}

\* ------------------------------------------------------------------ claims
\* C1: when the scan of a file has ended, every dependency block of the input
\* (a name line of the table directly followed by a line that contains
\* `path:`) stands in the output as the single line <indent><name>: <version>
\* newline, at the place of the block, and the output has one line less per
\* block than the input.
C1_BlockReplaced ==
  Scanned =>
    /\ \A j \in Blocks(lines) :
         /\ Pos(lines, j) \in 1..Len(new_lines)
         /\ new_lines[Pos(lines, j)] = VersionLine(lines[j])
    /\ Len(new_lines) = Len(lines) - Cardinality(Blocks(lines))

C1_Witness ==
  /\ Scanned
  /\ \E j \in Blocks(lines) : lines[j][1] = " " /\ j > 1

\* C2: when the scan of a file has ended, every input line that is neither the
\* name line nor the path line of a block stands unchanged in the output, at
\* the place that keeps the original order of all lines.
C2_OthersVerbatim ==
  Scanned =>
    \A j \in 1..Len(lines) :
      (j \notin Blocks(lines) /\ (j - 1) \notin Blocks(lines)) =>
        /\ Pos(lines, j) \in 1..Len(new_lines)
        /\ new_lines[Pos(lines, j)] = lines[j]

C2_Witness ==
  /\ Scanned
  /\ \E j \in 1..Len(lines) :
       /\ j \notin Blocks(lines) /\ (j - 1) \notin Blocks(lines)
       /\ Pos(lines, j) < j
       /\ lines[j] # <<"\n">>

\* C7 as stated: a name line of the table that is the last line, or whose next
\* line lacks `path:`, is emitted unchanged and so is its following line.
C7_AsStated ==
  Scanned =>
    \A j \in 1..Len(lines) :
      (IsNameLine(lines[j]) /\ (j = Len(lines) \/ ~HasPathMarker(lines[j + 1]))) =>
        /\ j \notin rewritten
        /\ new_lines[Pos(lines, j)] = lines[j]
        /\ j < Len(lines) => new_lines[Pos(lines, j + 1)] = lines[j + 1]

\* C7 (amended): a name line of the table that is the last line of the file,
\* or whose next line lacks `path:`, is not rewritten and is emitted unchanged;
\* its following line is emitted unchanged too unless that line is itself the
\* name line of a block; and only name lines of the table are ever rewritten.
C7_NoPathNoRewrite ==
  Scanned =>
    /\ \A j \in 1..Len(lines) :
         (IsNameLine(lines[j]) /\ (j = Len(lines) \/ ~HasPathMarker(lines[j + 1]))) =>
           /\ j \notin rewritten
           /\ new_lines[Pos(lines, j)] = lines[j]
           /\ (j < Len(lines) /\ ~IsBlock(lines, j + 1)) =>
                new_lines[Pos(lines, j + 1)] = lines[j + 1]
    /\ \A j \in rewritten : IsNameLine(lines[j])

C7_Witness ==
  /\ Scanned /\ Len(lines) >= 2
  /\ IsNameLine(lines[Len(lines)])
  /\ \E j \in 1..(Len(lines) - 1) :
       /\ IsNameLine(lines[j]) /\ ~HasPathMarker(lines[j + 1])
       /\ new_lines[j] = lines[j] /\ new_lines[j + 1] = lines[j + 1]

\* C10: the scan is one left-to-right pass with a one-line skip: the flag is
\* false when the scan of a file starts; it is set exactly while the line just
\* passed was rewritten; the line after a rewritten line is neither emitted,
\* nor examined, nor rewritten; every other line passed was examined; and of
\* two adjacent name lines followed by a path line only the second is
\* rewritten.
C10_OneLineSkip ==
  /\ (pc = "scan" /\ i = 1) => ~skip_next
  /\ skip_next <=> (pc = "scan" /\ (i - 1) \in rewritten)
  /\ \A j \in rewritten :
       /\ j + 1 <= Len(lines)
       /\ (j + 1) \notin examined /\ (j + 1) \notin rewritten
       /\ \A k \in 1..Len(origin) : origin[k] # j + 1
  /\ (pc = "scan" \/ Scanned) =>
       \A j \in 1..(i - 1) : j \in examined \/ (j - 1) \in rewritten
  /\ Scanned =>
       \A j \in 1..(Len(lines) - 2) :
         (IsNameLine(lines[j]) /\ IsNameLine(lines[j + 1]) /\ HasPathMarker(lines[j + 2]))
           => (j \notin rewritten /\ (j + 1) \in rewritten)

C10_Witness ==
  /\ Scanned /\ Len(lines) = 3
  /\ IsNameLine(lines[1]) /\ IsNameLine(lines[2]) /\ HasPathMarker(lines[3])
  /\ rewritten = {2} /\ examined = {1, 2}

\* C4: idempotence: when the first call on a file ended without error, the
\* second call on the same file rewrites no block, never opens the file for
\* writing and ends without a write.
C4_Idempotent ==
  \A d \in manifests :
    (Len(outcomes[d]) >= 1 /\ outcomes[d][1] # "Failed") =>
      /\ (cur = d /\ calls[d] = 2) => (~modified /\ rewritten = {} /\ pc # "write")
      /\ Len(outcomes[d]) = 2 => outcomes[d][2] # "Written"
      /\ Reports("Fixed", d) <= 1

C4_Witness ==
  /\ cur # NoDir /\ calls[cur] = 2 /\ pc = "commit"
  /\ outcomes[cur][1] = "Written"
  /\ Len(lines) >= 2

\* C3: as long as no call has failed, a manifest is opened for writing and
\* reported as 'Fixed' only if it holds a dependency block; a manifest without
\* one is never opened for writing, keeps its text and gets no report; and at
\* the end of the run every manifest with a block that fix_file was called on
\* has been overwritten with the rewritten text and reported as 'Fixed' once.
C3_WriteIffModified ==
  (\A e \in Dirs : Count(outcomes[e], "Failed") = 0) =>
    \A d \in manifests :
      /\ ~HasBlock(d) =>
           /\ d \notin wopened /\ disk[d] = orig[d]
           /\ Reports("Fixed", d) = 0 /\ Reports("Error processing", d) = 0
      /\ (pc = "done" /\ calls[d] >= 1 /\ HasBlock(d)) =>
           /\ d \in wopened /\ disk[d] = NewText(d) /\ disk[d] # orig[d]
           /\ Reports("Fixed", d) = 1

C3_Witness ==
  /\ pc = "done"
  /\ \A e \in Dirs : Count(outcomes[e], "Failed") = 0
  /\ \E d, e \in manifests :
       /\ HasBlock(d) /\ outcomes[d] = <<"Written">> /\ d \in wopened
       /\ ~HasBlock(e) /\ outcomes[e] = <<"Unmodified">> /\ e \notin wopened

\* C5 as stated: in every reachable state a manifest holds either its full
\* original text or the full rewritten text, and after a failed call it still
\* holds its original text.
C5_AllOrNothing ==
  \A d \in manifests :
    /\ disk[d] = orig[d] \/ disk[d] = NewText(d)
    /\ (Count(outcomes[d], "Failed") > 0 /\ Count(outcomes[d], "Written") = 0) =>
         disk[d] = orig[d]

\* what is left of the run, most significant first: roots not yet started,
\* directories the current walk may still list, the stage of the current call,
\* lines the current scan has not passed
RECURSIVE Weight(_)
Weight(st) ==
  IF st = <<>> THEN 0
  ELSE (IF Head(st) \in Dirs THEN Cardinality(subtree(Head(st))) ELSE 1) + Weight(Tail(st))

Stage == CASE pc = "read" -> 5 [] pc = "scan" -> 4 [] pc = "commit" -> 3
           [] pc = "write" -> 2 [] pc = "walk" -> 1 [] OTHER -> 0

Remaining == <<Len(roots) + 1 - rootIdx, Weight(stack), Stage, Len(lines) + 1 - i>>

LexLess(a, b) == \E k \in 1..4 : a[k] < b[k] /\ \A j \in 1..(k - 1) : a[j] = b[j]

\* C6: every call of fix_file ends in exactly one of Unmodified, Written and
\* Failed; a failed call prints exactly one 'Error processing' line; no file is
\* tried again after a failure; at the end of the run fix_file has been called
\* on every manifest once for each root whose walk reaches it, whatever calls
\* failed before; and the run reaches its end: before the end a step is always
\* possible, and every step, failing or not, reduces what is left of the run.
C6_Safety ==
  /\ \A d \in Dirs :
       /\ \A k \in 1..Len(outcomes[d]) :
            outcomes[d][k] \in {"Unmodified", "Written", "Failed"}
       /\ Len(outcomes[d]) = (IF cur = d THEN calls[d] - 1 ELSE calls[d])
       /\ Reports("Error processing", d) = Count(outcomes[d], "Failed")
       /\ calls[d] <= Cardinality({k \in 1..Len(roots) : d \in subtree(roots[k])})
       /\ pc = "done" =>
            calls[d] = (IF d \in manifests
                        THEN Cardinality({k \in 1..Len(roots) : Reach(roots[k], d)})
                        ELSE 0)
  /\ pc # "done" => ENABLED Next
  /\ \A k \in 1..4 : Remaining[k] >= 0

C6_ErrorsIsolated == [](C6_Safety) /\ [][LexLess(Remaining', Remaining)]_vars

C6_Witness ==
  /\ pc = "done"
  /\ \E d, e \in manifests :
       /\ d # e
       /\ \E k, m \in 1..Len(out) :
            k < m /\ out[k] = <<"Error processing", d>> /\ out[m] = <<"Fixed", e>>

\* C8 as stated: at the end of the run every manifest under the roots has been
\* passed to fix_file exactly once, for any roots list.
C8_AsStated ==
  pc = "done" => \A d \in manifests : UnderRoots(d) => calls[d] = 1

\* C8 (amended): when the trees of the roots are pairwise disjoint, no
\* manifest is passed to fix_file twice, and at the end of the run a manifest
\* under the roots has been passed exactly once if the walk could list its
\* directory and every directory between it and its root, and never otherwise.
C8_OncePerManifest ==
  DisjointRoots =>
    \A d \in Dirs :
      /\ calls[d] <= 1
      /\ pc = "done" =>
           (calls[d] = 1 <=> (d \in manifests /\ \E k \in 1..Len(roots) : Reach(roots[k], d)))

C8_Witness ==
  /\ pc = "done" /\ Len(roots) = 2 /\ DisjointRoots
  /\ \E d, e \in manifests :
       /\ d \in subtree(roots[1]) /\ e \in subtree(roots[2])
       /\ calls[d] = 1 /\ calls[e] = 1

\* C9: at the end of the run, fix_file has been called on every manifest that
\* some root reaches through directories the walk could list, and has
\* rewritten it when it holds a block and no call on it failed, also when
\* other roots do not exist or other directories could not be listed.
C9_WalkErrorsLocal ==
  pc = "done" =>
    \A k \in 1..Len(roots) : \A d \in manifests :
      Reach(roots[k], d) =>
        /\ calls[d] >= 1
        /\ (HasBlock(d) /\ Count(outcomes[d], "Failed") = 0) => disk[d] = NewText(d)

C9_Witness ==
  /\ pc = "done" /\ Len(roots) = 2 /\ roots[1] = NoDir
  /\ \E d \in Dirs, e \in manifests :
       /\ access[d] = "denied" /\ e \notin subtree(d) /\ d \in subtree(roots[2])
       /\ outcomes[e] = <<"Written">> /\ disk[e] = NewText(e)
====
